---- MODULE Spec2Model ----
(***************************************************************************)
(* A model of contrag-core: the namespace-partitioned vector store         *)
(* (vector_store/stable_memory_store.rs, vector_store/mod.rs) and the      *)
(* embedding cache (embedders/mod.rs), and the text chunker                *)
(* (context_builder.rs, config.rs).                                        *)
(*                                                                         *)
(* Spec       the vector store, one action per trait method                *)
(* CacheSpec  the embedding cache and the cached embedder                  *)
(* ChunkSpec  validate_config, ContextBuilder::new and chunk_text, one     *)
(*            step per iteration of its loop                               *)
(* FnSpec     the free functions cosine_similarity, euclidean_distance     *)
(*            (vector_store/mod.rs) and generate_vector_id (utils.rs)      *)
(* IngestSpec the update calls of examples/user-canister                   *)
(* LockSpec   the store's two RwLocks under concurrent callers, one step   *)
(*            per lock acquired and per return                             *)
(***************************************************************************)
EXTENDS Integers, Sequences, FiniteSets, TLC

(***************************************************************************)
(* Bounds of the model                                                     *)
(***************************************************************************)
\* the store's actions stop adding vectors once it holds this many in total
MaxVecs == 2
\* the longest batch handed to store_batch
MaxBatch == 2
\* the largest k handed to search
MaxK == 2
\* the largest capacity an EmbeddingCache is created with
MaxCap == 2
\* the longest text list handed to embed_with_cache
MaxTexts == 3
\* the longest text handed to chunk_text, in characters, next to the text of
\* test_chunk_text_large
MaxTextLen == 4
\* the largest chunk_size and overlap of a ChunkingConfig, next to the
\* configuration of test_chunk_text_large
MaxChunkSize == 3
\* chunk_text's loop stops being followed once it has pushed this many chunks
MaxChunks == 6
\* the longest entity type and entity id handed to generate_vector_id
MaxNameLen == 2

(***************************************************************************)
(* Inputs                                                                  *)
(***************************************************************************)
Namespaces == {"A", "B"}
Ids == {"v1", "v2"}
Queries == {<<1, 0>>, <<-1, 1>>}
NoCustom == "None"

\* VectorMetadata (types.rs): custom is an Option<String>
MetaOne == [entity_type |-> "User", entity_id |-> "1", chunk_index |-> 0,
            total_chunks |-> 2, timestamp |-> 1, custom |-> NoCustom]
MetaTwo == [entity_type |-> "User", entity_id |-> "1", chunk_index |-> 1,
            total_chunks |-> 2, timestamp |-> 2, custom |-> "{}"]
\* the embedding, the text and the metadata a vector is stored with
Shapes == {<<<<1, 0>>, "t1", MetaOne>>, <<<<1, 1>>, "t2", MetaTwo>>,
           <<<<1, 0, 0>>, "t1", MetaOne>>}

\* struct Vector (types.rs)
Vectors ==
  {[id |-> i, embedding |-> p[1], text |-> p[2], metadata |-> p[3]] :
     i \in Ids, p \in Shapes}

\* the texts handed to the cache, and the embeddings stored with them
Texts == {"a", "b", "c"}
CacheEmbeddings == {<<1, 0>>, <<1, 1>>}

RECURSIVE SeqsUpTo(_, _)
SeqsUpTo(S, n) ==
  IF n = 0 THEN {<<>>}
  ELSE LET shorter == SeqsUpTo(S, n - 1)
       IN  shorter \cup {Append(s, x) : s \in {t \in shorter : Len(t) = n - 1}, x \in S}

\* the text lists handed to embed_with_cache: two of the texts, in every
\* order and with repetitions
TextLists == SeqsUpTo({"a", "b"}, MaxTexts)

\* the batches handed to store_batch, by their greatest length
Batches == [n \in 0..MaxBatch |-> SeqsUpTo(Vectors, n)]

\* The characters of the texts handed to chunk_text: a letter, a space and
\* "W", which stands for a character of two bytes such as U+00E9.  A text is
\* the sequence of its characters.
Chars == {"x", " ", "W"}
ChunkTexts == SeqsUpTo(Chars, MaxTextLen)

\* struct ChunkingConfig (config.rs)
SmallConfigs == [chunk_size : 0..MaxChunkSize, overlap : 0..MaxChunkSize]

\* test_chunk_text_large: chunk_size 50, overlap 10, "a".repeat(150)
TestConfig == [chunk_size |-> 50, overlap |-> 10]
TestText == [i \in 1..150 |-> "x"]

\* a chunk longer than find_word_boundary's lookback, and a text whose only
\* boundary characters are a space out of the lookback's reach of the first
\* candidate end and a full stop within it
WindowConfig == [chunk_size |-> 60, overlap |-> 10]
WindowText == [i \in 1..150 |-> IF i = 5 THEN " " ELSE IF i = 100 THEN "." ELSE "x"]

Configs == SmallConfigs \cup {TestConfig, WindowConfig}

(***************************************************************************)
(* State                                                                   *)
(***************************************************************************)
VARIABLES
  vectors,     \* StableMemoryVectorStore.vectors: namespace -> Vec<StoredVector>
  namespaces,  \* StableMemoryVectorStore.namespaces: Vec<String>
  last,        \* the last store call: its arguments and what it returned
  lifecycle,   \* history: each namespace "never" stored into, "live" or "deleted"
  cache,       \* EmbeddingCache.cache: text -> embedding
  max_size,    \* EmbeddingCache.max_size
  recency,     \* history: the cache's keys, least recently used first
  clast,       \* the last cache call: its arguments and what it returned
  config,      \* ContextBuilder.config, or the configuration last validated
  ctext,       \* chunk_text: its argument text
  start,       \* chunk_text: the local start
  chunk_index, \* chunk_text: the local chunk_index
  chunks,      \* chunk_text: the local chunks, returned at the end
  pc,          \* where the chunker is: "new", "validated", "invalid_config",
               \* "idle" (built), "loop", "done" (returned) or "panicked"
  fcall,       \* the last call of a free function: its arguments and result
  canister,    \* user-canister's thread_locals: CONFIG and API_KEY (set or not),
               \* USERS (their ids) and VECTOR_STORE (namespace -> vectors)
  icall,       \* the last call of the canister: its arguments and result
  locks,       \* the RwLocks of StableMemoryVectorStore.vectors and .namespaces:
               \* the caller holding each for writing, the callers reading
  procs        \* each caller: its operation, namespace, the number of locks it
               \* has acquired and, for store_batch, the vectors still to store

storeVars == <<vectors, namespaces, last, lifecycle>>
cacheVars == <<cache, max_size, recency, clast>>
chunkVars == <<config, ctext, start, chunk_index, chunks, pc>>
\* the variables of the specifications that follow the chunker's
fnVars == <<fcall>>
ingestVars == <<canister, icall>>
lockVars == <<locks, procs>>
otherVars == <<fnVars, ingestVars, lockVars>>
vars == <<vectors, namespaces, last, lifecycle, cache, max_size, recency, clast,
          config, ctext, start, chunk_index, chunks, pc, fcall, canister, icall,
          locks, procs>>

(***************************************************************************)
(* cosine_similarity (vector_store/mod.rs).  A score is the exact value    *)
(* num / sqrt(den2); scores are compared without taking the root.          *)
(***************************************************************************)
RECURSIVE Dot(_, _)
Dot(a, b) ==
  IF a = <<>> \/ b = <<>> THEN 0
  ELSE Head(a) * Head(b) + Dot(Tail(a), Tail(b))

ZeroScore == [num |-> 0, den2 |-> 1]

\* a cosine_similarity that divides whatever the magnitudes are
cosine_similarity_unguarded(a, b) ==
  IF Len(a) # Len(b) THEN ZeroScore
  ELSE [num |-> Dot(a, b), den2 |-> Dot(a, a) * Dot(b, b)]

cosine_similarity(a, b) ==
  IF Len(a) # Len(b) THEN ZeroScore
  ELSE IF Dot(a, a) = 0 \/ Dot(b, b) = 0 THEN ZeroScore
  ELSE [num |-> Dot(a, b), den2 |-> Dot(a, a) * Dot(b, b)]

\* s1 > s2 as real numbers
ScoreGT(s1, s2) ==
  IF s1.num >= 0
  THEN IF s2.num < 0 THEN TRUE
       ELSE s1.num * s1.num * s2.den2 > s2.num * s2.num * s1.den2
  ELSE IF s2.num >= 0 THEN FALSE
       ELSE s1.num * s1.num * s2.den2 < s2.num * s2.num * s1.den2

ScoreEQ(s1, s2) == ~ScoreGT(s1, s2) /\ ~ScoreGT(s2, s1)

(***************************************************************************)
(* StableMemoryVectorStore                                                 *)
(***************************************************************************)
\* store, lines 70-79: the StoredVector built from a Vector (custom is not kept)
ToStored(v) ==
  [id |-> v.id, embedding |-> v.embedding, text |-> v.text,
   entity_type |-> v.metadata.entity_type, entity_id |-> v.metadata.entity_id,
   chunk_index |-> v.metadata.chunk_index, total_chunks |-> v.metadata.total_chunks,
   timestamp |-> v.metadata.timestamp]

\* store, lines 81-85: vectors.entry(namespace).or_insert_with(Vec::new).push(stored)
PushVector(vs, ns, stored) ==
  [n \in DOMAIN vs \cup {ns} |->
     IF n = ns
     THEN Append(IF ns \in DOMAIN vs THEN vs[ns] ELSE <<>>, stored)
     ELSE vs[n]]

Contains(seq, x) == \E i \in 1..Len(seq) : seq[i] = x

\* store, lines 88-91: the namespace joins the list unless it is there
\* a store that lists the namespace whether it is listed or not
ListNamespaceAlways(nss, ns) == Append(nss, ns)

ListNamespace(nss, ns) == IF Contains(nss, ns) THEN nss ELSE Append(nss, ns)

\* store as a function of the store's two fields; it always returns Ok(())
StoreFn(st, ns, v) ==
  [vectors |-> PushVector(st.vectors, ns, ToStored(v)),
   namespaces |-> ListNamespace(st.namespaces, ns)]

\* store_batch: store each vector in turn (store has no Err to stop the loop)
RECURSIVE StoreBatchFn(_, _, _)
StoreBatchFn(st, ns, batch) ==
  IF batch = <<>> THEN st
  ELSE StoreBatchFn(StoreFn(st, ns, Head(batch)), ns, Tail(batch))

\* count
CountFn(vs, ns) == IF ns \in DOMAIN vs THEN Len(vs[ns]) ELSE 0

RECURSIVE SumCounts(_, _)
SumCounts(vs, S) ==
  IF S = {} THEN 0
  ELSE LET n == CHOOSE x \in S : TRUE
       IN  Len(vs[n]) + SumCounts(vs, S \ {n})

TotalCount(vs) == SumCounts(vs, DOMAIN vs)

\* a delete that removes only the first vector with the id
RECURSIVE RetainAfterFirst(_, _)
RetainAfterFirst(seq, id) ==
  IF seq = <<>> THEN <<>>
  ELSE IF Head(seq).id = id THEN Tail(seq)
  ELSE <<Head(seq)>> \o RetainAfterFirst(Tail(seq), id)

\* delete, line 155: retain(|v| v.id != vector_id)
Retain(seq, id) == SelectSeq(seq, LAMBDA v : v.id # id)

\* a delete that drops a namespace it has emptied
DeleteFnDropEmpty(vs, ns, id) ==
  IF ns \in DOMAIN vs
  THEN IF Retain(vs[ns], id) = <<>>
       THEN [n \in DOMAIN vs \ {ns} |-> vs[n]]
       ELSE [vs EXCEPT ![ns] = Retain(vs[ns], id)]
  ELSE vs

\* a delete that removes the id from every namespace
DeleteFnEverywhere(vs, ns, id) == [n \in DOMAIN vs |-> Retain(vs[n], id)]

DeleteFn(vs, ns, id) ==
  IF ns \in DOMAIN vs
  THEN [vs EXCEPT ![ns] = Retain(vs[ns], id)]
  ELSE vs

\* delete_namespace, line 163: vectors.remove(namespace)
RemoveNamespace(vs, ns) == [n \in DOMAIN vs \ {ns} |-> vs[n]]

\* a delete_namespace that leaves the list of namespaces alone
UnlistNothing(nss, ns) == nss

\* delete_namespace, line 166: namespaces.retain(|n| n != namespace)
UnlistNamespace(nss, ns) == SelectSeq(nss, LAMBDA n : n # ns)

(***************************************************************************)
(* search                                                                  *)
(***************************************************************************)
\* lines 120-126: (similarity, vector) for every vector, in stored order;
\* pos is the vector's place in the namespace, kept to tell equal vectors apart
Scored(seq, q) ==
  [i \in 1..Len(seq) |->
     [score |-> cosine_similarity(q, seq[i].embedding), pos |-> i, v |-> seq[i]]]

\* a comparator that also puts a before b when their scores are equal
BeforeOrEqual(a, b) == ~ScoreGT(b.score, a.score)

\* line 129, the comparator b.0.partial_cmp(&a.0): a goes before b when its
\* score is greater
Before(a, b) == ScoreGT(a.score, b.score)

\* sort_by is a stable sort: x goes behind every element that is not after it
RECURSIVE InsertSorted(_, _)
InsertSorted(sorted, x) ==
  IF sorted = <<>> THEN <<x>>
  ELSE IF Before(x, Head(sorted)) THEN <<x>> \o sorted
  ELSE <<Head(sorted)>> \o InsertSorted(Tail(sorted), x)

RECURSIVE SortByScore(_)
SortByScore(seq) ==
  IF seq = <<>> THEN <<>>
  ELSE InsertSorted(SortByScore(SubSeq(seq, 1, Len(seq) - 1)), seq[Len(seq)])

\* line 134: take(k)
Take(seq, k) == SubSeq(seq, 1, IF k < Len(seq) THEN k ELSE Len(seq))

\* lines 135-147: the SearchResult of a scored vector; custom is None
ToResult(r) ==
  [vector_id |-> r.v.id, text |-> r.v.text, score |-> r.score, pos |-> r.pos,
   metadata |-> [entity_type |-> r.v.entity_type, entity_id |-> r.v.entity_id,
                 chunk_index |-> r.v.chunk_index, total_chunks |-> r.v.total_chunks,
                 timestamp |-> r.v.timestamp, custom |-> NoCustom]]

NotFound == "VectorStoreError: Namespace not found"

\* a search that takes an empty namespace for a missing one
SearchFnEmptyIsMissing(vs, ns, q, k) ==
  IF ns \notin DOMAIN vs \/ vs[ns] = <<>> THEN [err |-> NotFound, res |-> <<>>]
  ELSE LET top == Take(SortByScore(Scored(vs[ns], q)), k)
       IN  [err |-> "", res |-> [i \in 1..Len(top) |-> ToResult(top[i])]]

SearchFn(vs, ns, q, k) ==
  IF ns \notin DOMAIN vs THEN [err |-> NotFound, res |-> <<>>]
  ELSE IF vs[ns] = <<>> THEN [err |-> "", res |-> <<>>]
  ELSE LET top == Take(SortByScore(Scored(vs[ns], q)), k)
       IN  [err |-> "", res |-> [i \in 1..Len(top) |-> ToResult(top[i])]]

(***************************************************************************)
(* The store's actions.  Of the state before the call, last keeps n0, the   *)
(* count of the namespace, existed, whether the map held the namespace,    *)
(* live0, the namespaces both listed and held by the map, others0, what   *)
(* the map held for the other namespaces, and namespaces0, the list.       *)
(***************************************************************************)
Call(op, ns, arg, ret, err) ==
  [op |-> op, ns |-> ns, arg |-> arg, ret |-> ret, err |-> err,
   n0 |-> CountFn(vectors, ns), existed |-> ns \in DOMAIN vectors,
   live0 |-> {n \in DOMAIN vectors : Contains(namespaces, n)},
   others0 |-> [n \in DOMAIN vectors \ {ns} |-> vectors[n]],
   namespaces0 |-> namespaces]

Store(ns, v) ==
  /\ UNCHANGED <<cacheVars, chunkVars, otherVars>>
  /\ TotalCount(vectors) < MaxVecs
  /\ LET st == StoreFn([vectors |-> vectors, namespaces |-> namespaces], ns, v)
     IN  /\ vectors' = st.vectors
         /\ namespaces' = st.namespaces
  /\ lifecycle' = [lifecycle EXCEPT ![ns] = "live"]
  /\ last' = Call("store", ns, v, "Ok", "")

StoreBatch(ns, batch) ==
  /\ UNCHANGED <<cacheVars, chunkVars, otherVars>>
  /\ TotalCount(vectors) + Len(batch) <= MaxVecs
  /\ LET st == StoreBatchFn([vectors |-> vectors, namespaces |-> namespaces], ns, batch)
     IN  /\ vectors' = st.vectors
         /\ namespaces' = st.namespaces
  /\ lifecycle' = IF batch = <<>> THEN lifecycle ELSE [lifecycle EXCEPT ![ns] = "live"]
  /\ last' = Call("store_batch", ns, batch, "Ok", "")

Search(ns, q, k) ==
  /\ UNCHANGED <<cacheVars, chunkVars, otherVars>>
  /\ LET r == SearchFn(vectors, ns, q, k)
     IN  last' = Call("search", ns, <<q, k>>, r.res, r.err)
  /\ UNCHANGED <<vectors, namespaces, lifecycle>>

Delete(ns, id) ==
  /\ UNCHANGED <<cacheVars, chunkVars, otherVars>>
  /\ vectors' = DeleteFn(vectors, ns, id)
  /\ last' = Call("delete", ns, id, "Ok", "")
  /\ UNCHANGED <<namespaces, lifecycle>>

DeleteNamespace(ns) ==
  /\ UNCHANGED <<cacheVars, chunkVars, otherVars>>
  /\ vectors' = RemoveNamespace(vectors, ns)
  /\ namespaces' = UnlistNamespace(namespaces, ns)
  /\ last' = Call("delete_namespace", ns, "", "Ok", "")
  /\ lifecycle' = [lifecycle EXCEPT ![ns] = IF @ = "never" THEN "never" ELSE "deleted"]

Count(ns) ==
  /\ UNCHANGED <<cacheVars, chunkVars, otherVars>>
  /\ last' = Call("count", ns, "", CountFn(vectors, ns), "")
  /\ UNCHANGED <<vectors, namespaces, lifecycle>>

ListNamespaces ==
  /\ UNCHANGED <<cacheVars, chunkVars, otherVars>>
  /\ last' = Call("list_namespaces", "", "", namespaces, "")
  /\ UNCHANGED <<vectors, namespaces, lifecycle>>

\* how many vectors an action may still add, at most n
Room(n) ==
  LET free == MaxVecs - TotalCount(vectors)
  IN  IF free < n THEN free ELSE n

StoreInit ==
  /\ vectors = <<>>
  /\ namespaces = <<>>
  /\ lifecycle = [ns \in Namespaces |-> "never"]
  /\ last = [op |-> "new", ns |-> "", arg |-> "", ret |-> "", err |-> "",
             n0 |-> 0, existed |-> FALSE, live0 |-> {}, others0 |-> <<>>,
             namespaces0 |-> <<>>]

(***************************************************************************)
(* EmbeddingCache (embedders/mod.rs).  The cache is a HashMap; recency is  *)
(* history the code does not keep: the keys in order of their last get or  *)
(* insert, least recently used first.                                      *)
(***************************************************************************)
None == "None"

\* get, line 50
CacheGetFn(c, text) == IF text \in DOMAIN c THEN c[text] ELSE None

Without(seq, x) == SelectSeq(seq, LAMBDA y : y # x)
Touch(rec, text) == Append(Without(rec, text), text)

\* HashMap::remove / HashMap::insert
MapRemove(c, key) == [t \in DOMAIN c \ {key} |-> c[t]]
MapInsert(c, text, embedding) ==
  [t \in DOMAIN c \cup {text} |-> IF t = text THEN embedding ELSE c[t]]

\* insert, line 56: self.cache.keys().next() is the first key of the HashMap's
\* iteration order, which the hasher decides: any key may come first
FirstKeys(c) == DOMAIN c

\* insert, line 54: the cache is full
IsFull(c, cap) == Cardinality(DOMAIN c) >= cap

\* insert, lines 54-60, from the state cs = [cache, recency]: every outcome
InsertOutcomes(cs, cap, text, embedding) ==
  IF IsFull(cs.cache, cap) /\ DOMAIN cs.cache # {}
  THEN {[cache |-> MapInsert(MapRemove(cs.cache, k), text, embedding),
         recency |-> Touch(Without(cs.recency, k), text),
         evicted |-> k] : k \in FirstKeys(cs.cache)}
  ELSE {[cache |-> MapInsert(cs.cache, text, embedding),
         recency |-> Touch(cs.recency, text),
         evicted |-> None]}

\* the embedding provider's answer for one text, when it answers
Embed(text) == IF text = "a" THEN <<1, 0>> ELSE IF text = "b" THEN <<1, 1>> ELSE <<0, 1>>

\* embed_with_cache, lines 88-95: the texts that miss, and their indices
Misses(c, texts) == SelectSeq([i \in 1..Len(texts) |-> i], LAMBDA i : texts[i] \notin DOMAIN c)

\* embed_with_cache, lines 88-95: every hit is a get, which uses the key
RECURSIVE TouchHits(_, _, _)
TouchHits(rec, c, texts) ==
  IF texts = <<>> THEN rec
  ELSE TouchHits(IF Head(texts) \in DOMAIN c THEN Touch(rec, Head(texts)) ELSE rec,
                 c, Tail(texts))

\* embed_with_cache, lines 102-104: insert every (text, embedding) pair in turn
RECURSIVE InsertAll(_, _, _)
InsertAll(states, cap, to_embed) ==
  IF to_embed = <<>> THEN states
  ELSE InsertAll(UNION {InsertOutcomes(cs, cap, Head(to_embed), Embed(Head(to_embed))) :
                          cs \in states},
                 cap, Tail(to_embed))

\* an embed_with_cache that hands the provider every text, cached or not
ToEmbedAll(c, texts) == texts

\* embed_with_cache, lines 88-95: to_embed, the texts that miss, in input order
ToEmbed(c, texts) ==
  LET idx == Misses(c, texts)
  IN  [j \in 1..Len(idx) |-> texts[idx[j]]]

\* embed_with_cache, lines 88-90: results after the first loop, (idx, cached)
\* for every hit
HitPairs(c, texts) ==
  LET idx == SelectSeq([i \in 1..Len(texts) |-> i], LAMBDA i : texts[i] \in DOMAIN c)
  IN  [j \in 1..Len(idx) |-> <<idx[j], c[texts[idx[j]]]>>]

\* Embedder::embed when it answers: one embedding per text, in order
ProviderEmbed(to_embed) == [j \in 1..Len(to_embed) |-> Embed(to_embed[j])]

\* Iterator::zip: as long as the shorter of the two
Zip(a, b) ==
  [j \in 1..(IF Len(a) < Len(b) THEN Len(a) ELSE Len(b)) |-> <<a[j], b[j]>>]

\* line 113, sort_by_key(|(idx, _)| *idx): a stable sort on the index
RECURSIVE InsertByKey(_, _)
InsertByKey(sorted, x) ==
  IF sorted = <<>> THEN <<x>>
  ELSE IF x[1] < Head(sorted)[1] THEN <<x>> \o sorted
  ELSE <<Head(sorted)>> \o InsertByKey(Tail(sorted), x)

RECURSIVE SortByKey(_)
SortByKey(pairs) ==
  IF pairs = <<>> THEN <<>>
  ELSE InsertByKey(SortByKey(SubSeq(pairs, 1, Len(pairs) - 1)), pairs[Len(pairs)])

\* an embed_with_cache that returns its results in the order it collected them
EmbedResultsUnsorted(c, texts) ==
  LET results == HitPairs(c, texts)
                   \o Zip(Misses(c, texts), ProviderEmbed(ToEmbed(c, texts)))
  IN  [i \in 1..Len(results) |-> results[i][2]]

\* embed_with_cache, lines 83-114: the list returned when the provider answers
EmbedResults(c, texts) ==
  LET results == HitPairs(c, texts)
                   \o Zip(Misses(c, texts), ProviderEmbed(ToEmbed(c, texts)))
      sorted == SortByKey(results)
  IN  [i \in 1..Len(sorted) |-> sorted[i][2]]

\* embed_with_cache, lines 98-99: the lists handed to the provider's embed, one
\* for each time it is invoked
ProviderCalls(c, texts) ==
  IF ToEmbed(c, texts) # <<>> THEN <<ToEmbed(c, texts)>> ELSE <<>>

\* Of the state before the call, clast keeps lru, the least recently used
\* key, size0, the number of entries, and cache0, the cache itself; calls
\* are the lists the call handed to the provider, err whether it returned Err.
CacheCall(op, key, ret, evicted, calls) ==
  [op |-> op, key |-> key, ret |-> ret, err |-> FALSE, evicted |-> evicted,
   calls |-> calls,
   lru |-> IF recency = <<>> THEN None ELSE Head(recency),
   size0 |-> Cardinality(DOMAIN cache), cache0 |-> cache]

\* EmbeddingCache::new / CachedEmbedder::new
CacheNew(n) ==
  /\ UNCHANGED <<storeVars, chunkVars, otherVars>>
  /\ cache' = <<>>
  /\ max_size' = n
  /\ recency' = <<>>
  /\ clast' = CacheCall("new", "", "", None, <<>>)

CacheGet(text) ==
  /\ UNCHANGED <<storeVars, chunkVars, otherVars>>
  /\ recency' = IF text \in DOMAIN cache THEN Touch(recency, text) ELSE recency
  /\ clast' = CacheCall("get", text, CacheGetFn(cache, text), None, <<>>)
  /\ UNCHANGED <<cache, max_size>>

CacheInsert(text, embedding) ==
  /\ UNCHANGED <<storeVars, chunkVars, otherVars>>
  /\ \E o \in InsertOutcomes([cache |-> cache, recency |-> recency], max_size,
                             text, embedding) :
       /\ cache' = o.cache
       /\ recency' = o.recency
       /\ clast' = CacheCall("insert", text, "", o.evicted, <<>>)
  /\ UNCHANGED max_size

CacheClear ==
  /\ UNCHANGED <<storeVars, chunkVars, otherVars>>
  /\ cache' = <<>>
  /\ recency' = <<>>
  /\ clast' = CacheCall("clear", "", "", None, <<>>)
  /\ UNCHANGED max_size

\* embed_with_cache when the provider answers (or is not asked)
EmbedWithCacheOk(texts) ==
  LET touched == [cache |-> cache, recency |-> TouchHits(recency, cache, texts)]
  IN  /\ clast' = CacheCall("embed_with_cache", texts, EmbedResults(cache, texts),
                            None, ProviderCalls(cache, texts))
      /\ \E o \in InsertAll({touched}, max_size, ToEmbed(cache, texts)) :
            /\ cache' = o.cache
            /\ recency' = o.recency
      /\ UNCHANGED max_size
      /\ UNCHANGED <<storeVars, chunkVars, otherVars>>

\* an embed_with_cache that has cached the misses it could not embed
CacheAfterErrPoisoned(c, texts) ==
  [t \in DOMAIN c \cup {texts[i] : i \in 1..Len(texts)} |->
     IF t \in DOMAIN c THEN c[t] ELSE <<>>]

\* embed_with_cache, line 99: `?` returns the provider's Err before any insert
CacheAfterErr(c, texts) == c

\* embed_with_cache when the provider's embed returns Err
EmbedWithCacheErr(texts) ==
  /\ UNCHANGED <<storeVars, chunkVars, otherVars>>
  /\ ToEmbed(cache, texts) # <<>>
  /\ cache' = CacheAfterErr(cache, texts)
  /\ recency' = TouchHits(recency, cache, texts)
  /\ clast' = [CacheCall("embed_with_cache", texts, <<>>, None,
                          ProviderCalls(cache, texts)) EXCEPT !.err = TRUE]
  /\ UNCHANGED max_size

CacheInit ==
  /\ cache = <<>>
  /\ max_size = 0
  /\ recency = <<>>
  /\ clast = [op |-> "new", key |-> "", ret |-> "", err |-> FALSE, evicted |-> None,
              calls |-> <<>>,
              lru |-> None, size0 |-> 0, cache0 |-> <<>>]

(***************************************************************************)
(* The text chunker: config.rs and context_builder.rs                      *)
(***************************************************************************)
\* impl Default for ChunkingConfig
DefaultConfig == [chunk_size |-> 1000, overlap |-> 100]

\* find_word_boundary looks back over this many positions
Lookback == 50

\* usize::saturating_sub
SaturatingSub(a, b) == IF a > b THEN a - b ELSE 0

\* the bytes a character takes in a str
Width(c) == IF c = "W" THEN 2 ELSE 1

\* the byte offset at which the first k characters of t end: one byte for
\* each character and one more for each character of two
Offset(t, k) == k + Cardinality({j \in 1..k : Width(t[j]) = 2})

\* str::len: the length of a text in bytes
ByteLen(t) == Offset(t, Len(t))

\* str::is_char_boundary
IsCharBoundary(t, b) == \E k \in 0..Len(t) : Offset(t, k) = b

\* text[s..e] panics unless s <= e and both are character boundaries
SliceOk(t, s, e) == s <= e /\ IsCharBoundary(t, s) /\ IsCharBoundary(t, e)

\* text[s..e]: the characters that begin at a byte offset in s..e-1
Slice(t, s, e) ==
  LET idx == SelectSeq([k \in 1..Len(t) |-> k],
                       LAMBDA k : s <= Offset(t, k - 1) /\ Offset(t, k - 1) < e)
  IN  [j \in 1..Len(idx) |-> t[idx[j]]]

\* find_word_boundary, line 117: the characters a chunk may end after
IsBoundaryChar(c) == c \in {" ", ".", "!", "?", "\n"}

\* find_word_boundary: chars[i] is the i-th character, counted from 0, while
\* pos is a byte offset
find_word_boundary(t, pos) ==
  LET found == {i \in SaturatingSub(pos, Lookback)..(pos - 1) :
                  i < Len(t) /\ IsBoundaryChar(t[i + 1])}
  IN  IF found = {} THEN pos
      ELSE (CHOOSE i \in found : \A j \in found : j <= i) + 1

\* a candidate end that is always the end of the text
CandidateEndWhole(s, size, len) == len

\* chunk_text, line 79: (start + chunk_size).min(text.len())
CandidateEnd(s, size, len) == IF s + size < len THEN s + size ELSE len

\* chunk_text, lines 82-86
ActualEnd(t, s, size) ==
  LET end == CandidateEnd(s, size, ByteLen(t))
  IN  IF end < ByteLen(t) THEN find_word_boundary(t, end) ELSE end

\* a next start that skips the overlap forward
NextStartSkipping(actual_end, overlap) == actual_end + overlap

\* chunk_text, line 100: actual_end.saturating_sub(overlap)
NextStart(actual_end, overlap) == SaturatingSub(actual_end, overlap)

\* a single chunk that ends where a full chunk would
SingleChunkCut(t, size) ==
  [text |-> t, start_idx |-> 0, end_idx |-> size, chunk_index |-> 0]

\* chunk_text, lines 66-71: the chunk returned for a text within chunk_size
SingleChunk(t, size) ==
  [text |-> t, start_idx |-> 0, end_idx |-> ByteLen(t), chunk_index |-> 0]

\* validate_config, lines 150-160: the checks of the chunking section; the
\* entities and the embedder are taken to pass theirs
ValidateChunking(cfg) ==
  IF cfg.chunk_size = 0 THEN "InvalidConfig"
  ELSE IF cfg.overlap >= cfg.chunk_size THEN "InvalidConfig"
  ELSE "Ok"

\* validate_config on a configuration just loaded
ValidateConfig(cfg) ==
  /\ UNCHANGED <<storeVars, cacheVars, otherVars>>
  /\ pc = "new"
  /\ config' = cfg
  /\ pc' = IF ValidateChunking(cfg) = "Ok" THEN "validated" ELSE "invalid_config"
  /\ UNCHANGED <<ctext, start, chunk_index, chunks>>

\* ContextBuilder::new: takes the configuration as it is.  It is handed the
\* validated configuration, or any configuration by a caller that builds one
\* itself.
BuilderNew(cfg) ==
  /\ UNCHANGED <<storeVars, cacheVars, otherVars>>
  /\ \/ pc = "new"
     \/ pc = "validated" /\ cfg = config
  /\ config' = cfg
  /\ pc' = "idle"
  /\ ctext' = <<>>
  /\ start' = 0
  /\ chunk_index' = 0
  /\ chunks' = <<>>

\* chunk_text up to its loop, lines 65-76
ChunkText(t) ==
  /\ UNCHANGED <<storeVars, cacheVars, otherVars>>
  /\ pc = "idle"
  /\ ctext' = t
  /\ start' = 0
  /\ chunk_index' = 0
  /\ IF ByteLen(t) <= config.chunk_size
       THEN chunks' = <<SingleChunk(t, config.chunk_size)>> /\ pc' = "done"
       ELSE chunks' = <<>> /\ pc' = "loop"
  /\ UNCHANGED config

\* one iteration of chunk_text's loop, lines 78-102, and the return at 104
ChunkLoop ==
  LET len == ByteLen(ctext)
      actual_end == ActualEnd(ctext, start, config.chunk_size)
  IN  /\ UNCHANGED <<storeVars, cacheVars, otherVars>>
      /\ pc = "loop"
      /\ Len(chunks) < MaxChunks
      /\ IF ~(start < len)
           THEN pc' = "done" /\ UNCHANGED <<start, chunk_index, chunks>>
           ELSE IF ~SliceOk(ctext, start, actual_end)
           THEN pc' = "panicked" /\ UNCHANGED <<start, chunk_index, chunks>>
           ELSE /\ chunks' = Append(chunks,
                                 [text |-> Slice(ctext, start, actual_end),
                                  start_idx |-> start, end_idx |-> actual_end,
                                  chunk_index |-> chunk_index])
                /\ IF actual_end >= len
                     THEN pc' = "done" /\ UNCHANGED <<start, chunk_index>>
                     ELSE /\ start' = NextStart(actual_end, config.overlap)
                          /\ chunk_index' = chunk_index + 1
                          /\ pc' = "loop"
      /\ UNCHANGED <<config, ctext>>

ChunkInit ==
  /\ config = DefaultConfig
  /\ ctext = <<>>
  /\ start = 0
  /\ chunk_index = 0
  /\ chunks = <<>>
  /\ pc = "new"

(***************************************************************************)
(* The free functions: vector_store/mod.rs and utils.rs                    *)
(***************************************************************************)
\* the vectors handed to the similarity functions
SimVectors == {<<>>, <<0, 0>>, <<1, 0>>, <<1, 1>>, <<-1, 1>>, <<0, 0, 0>>, <<1, 0, 0>>}

\* f32::MAX, the distance returned for vectors of different lengths.  A
\* distance is held as its square, sq; max marks the sentinel.
F32Max == [max |-> TRUE, sq |-> 0]

\* euclidean_distance, lines 64-68: the sum of the squared differences
RECURSIVE SquaredDistance(_, _)
SquaredDistance(a, b) ==
  IF a = <<>> \/ b = <<>> THEN 0
  ELSE (Head(a) - Head(b)) * (Head(a) - Head(b)) + SquaredDistance(Tail(a), Tail(b))

euclidean_distance(a, b) ==
  IF Len(a) # Len(b) THEN F32Max
  ELSE [max |-> FALSE, sq |-> SquaredDistance(a, b)]

\* Strings handed to generate_vector_id are sequences of characters, drawn
\* from a letter and the colon.
NameChars == {"a", ":"}
Names == SeqsUpTo(NameChars, MaxNameLen)
ChunkIndexes == {0, 1, 10}

\* Display for usize: the decimal digits
RECURSIVE Decimal(_)
Decimal(n) ==
  LET digit == <<"0", "1", "2", "3", "4", "5", "6", "7", "8", "9">>[(n % 10) + 1]
  IN  IF n < 10 THEN <<digit>> ELSE Decimal(n \div 10) \o <<digit>>

\* generate_vector_id: format!("{}::{}::chunk_{}", ..)
generate_vector_id(entity_type, entity_id, index) ==
  entity_type \o <<":", ":">> \o entity_id
    \o <<":", ":", "c", "h", "u", "n", "k", "_">> \o Decimal(index)

CosineSimilarity(a, b) ==
  /\ UNCHANGED <<storeVars, cacheVars, chunkVars, ingestVars, lockVars>>
  /\ fcall' = [op |-> "cosine_similarity", args |-> <<a, b>>,
               ret |-> cosine_similarity(a, b)]

EuclideanDistance(a, b) ==
  /\ UNCHANGED <<storeVars, cacheVars, chunkVars, ingestVars, lockVars>>
  /\ fcall' = [op |-> "euclidean_distance", args |-> <<a, b>>,
               ret |-> euclidean_distance(a, b)]

GenerateVectorId(entity_type, entity_id, index) ==
  /\ UNCHANGED <<storeVars, cacheVars, chunkVars, ingestVars, lockVars>>
  /\ fcall' = [op |-> "generate_vector_id", args |-> <<entity_type, entity_id, index>>,
               ret |-> generate_vector_id(entity_type, entity_id, index)]

FnInit == fcall = [op |-> "none", args |-> <<>>, ret |-> <<>>]

(***************************************************************************)
(* The ingestion pipeline: examples/user-canister/src/lib.rs               *)
(***************************************************************************)
UserIds == {<<"1">>, <<"2">>}

\* format!("User:{}", user_id)
UserNamespace(user_id) == <<"U", "s", "e", "r", ":">> \o user_id

\* build_user_rag_context, lines 270-283: the vector built for each chunk
BuiltVectors(user_id, n) ==
  [i \in 1..n |->
     [id |-> generate_vector_id(<<"U", "s", "e", "r">>, user_id, i - 1),
      entity_type |-> "User", entity_id |-> user_id,
      chunk_index |-> i - 1, total_chunks |-> n]]

\* build_user_rag_context, lines 267-292: VECTOR_STORE after the loop.  The
\* loop builds each vector, spawns an empty task and calls no method of the
\* store.
StoreBuilt(store, namespace, built) == store

\* the checks build_user_rag_context and search_user_context begin with
CallError(user_id, needs_user, embed_ok) ==
  IF ~canister.config_set THEN "Configuration not set"
  ELSE IF ~canister.api_key_set THEN "API key not set"
  ELSE IF needs_user /\ user_id \notin canister.users THEN "User not found"
  ELSE IF ~embed_ok THEN "Failed to generate embeddings"
  ELSE ""

ICall(op, user_id, err, n, results) ==
  [op |-> op, user |-> user_id, err |-> err, n |-> n, results |-> results]

\* set_config: CONFIG is set when the JSON loads and validates
SetConfig(valid) ==
  /\ UNCHANGED <<storeVars, cacheVars, chunkVars, fnVars, lockVars>>
  /\ canister' = [canister EXCEPT !.config_set = @ \/ valid]
  /\ icall' = ICall("set_config", <<>>, IF valid THEN "" ELSE "Invalid config", 0, <<>>)

SetApiKey ==
  /\ UNCHANGED <<storeVars, cacheVars, chunkVars, fnVars, lockVars>>
  /\ canister' = [canister EXCEPT !.api_key_set = TRUE]
  /\ icall' = ICall("set_api_key", <<>>, "", 0, <<>>)

CreateUser(user_id) ==
  /\ UNCHANGED <<storeVars, cacheVars, chunkVars, fnVars, lockVars>>
  /\ canister' = [canister EXCEPT !.users = @ \cup {user_id}]
  /\ icall' = ICall("create_user", user_id, "", 0, <<>>)

\* build_user_rag_context: n is the number of chunks chunk_text returns for
\* the user's context, embed_ok whether the provider answers
BuildUserRagContext(user_id, n, embed_ok) ==
  LET err == CallError(user_id, TRUE, embed_ok)
  IN  /\ UNCHANGED <<storeVars, cacheVars, chunkVars, fnVars, lockVars>>
      /\ canister' =
           IF err = "" THEN [canister EXCEPT !.vectors =
                               StoreBuilt(@, UserNamespace(user_id),
                                          BuiltVectors(user_id, n))]
           ELSE canister
      /\ icall' = ICall("build_user_rag_context", user_id, err,
                        IF err = "" THEN n ELSE 0, <<>>)

\* search_user_context, lines 329-333: Ok(vec![]), whatever the store holds
SearchUserContext(user_id, embed_ok) ==
  /\ UNCHANGED <<storeVars, cacheVars, chunkVars, fnVars, lockVars>>
  /\ UNCHANGED canister
  /\ icall' = ICall("search_user_context", user_id,
                    CallError(user_id, FALSE, embed_ok), 0, <<>>)

IngestInit ==
  /\ canister = [config_set |-> FALSE, api_key_set |-> FALSE, users |-> {},
                 vectors |-> <<>>]
  /\ icall = ICall("init", <<>>, "", 0, <<>>)

(***************************************************************************)
(* The store's locks: stable_memory_store.rs.  The callers are taken to    *)
(* share the store, as its Arc<RwLock<..>> fields provide for; callers     *)
(* that run one after the other are among the interleavings.               *)
(***************************************************************************)
Procs == {"p1", "p2", "p3"}
NoProc == "none"
LockOps == {"store", "store_batch", "search", "delete", "delete_namespace", "count",
            "list_namespaces"}

\* a delete_namespace that takes the namespaces lock before the vectors lock
LocksOfReversed(op) ==
  IF op \in {"store", "store_batch"}
    THEN <<<<"vectors", "write">>, <<"namespaces", "write">>>>
  ELSE IF op = "delete_namespace"
    THEN <<<<"namespaces", "write">>, <<"vectors", "write">>>>
  ELSE IF op = "delete" THEN <<<<"vectors", "write">>>>
  ELSE IF op \in {"search", "count"} THEN <<<<"vectors", "read">>>>
  ELSE IF op = "list_namespaces" THEN <<<<"namespaces", "read">>>>
  ELSE <<>>

\* the locks an operation acquires, in the order of its code: store lines 81
\* and 88 (store_batch calls store for each vector), search 109, delete 152,
\* delete_namespace 162 and 165, count 172, list_namespaces 177
LocksOf(op) ==
  IF op \in {"store", "store_batch", "delete_namespace"}
    THEN <<<<"vectors", "write">>, <<"namespaces", "write">>>>
  ELSE IF op = "delete" THEN <<<<"vectors", "write">>>>
  ELSE IF op \in {"search", "count"} THEN <<<<"vectors", "read">>>>
  ELSE IF op = "list_namespaces" THEN <<<<"namespaces", "read">>>>
  ELSE <<>>

Idle == [op |-> "idle", ns |-> "", held |-> 0, left |-> 0]

\* RwLock::write returns when nobody holds the lock, RwLock::read when nobody
\* holds it for writing
Available(l, mode) ==
  IF mode = "write" THEN locks[l].writer = NoProc /\ locks[l].readers = {}
  ELSE locks[l].writer = NoProc

\* the lock and mode caller p acquires next
NextLock(p) == LocksOf(procs[p].op)[procs[p].held + 1]

\* a caller begins an operation; n is the length of a batch
Start(p, op, ns, n) ==
  /\ UNCHANGED <<storeVars, cacheVars, chunkVars, fnVars, ingestVars>>
  /\ procs[p] = Idle
  /\ procs' = [procs EXCEPT ![p] =
                 [op |-> op, ns |-> IF op = "list_namespaces" THEN "" ELSE ns,
                  held |-> 0, left |-> IF op = "store_batch" THEN n ELSE 0]]
  /\ UNCHANGED locks

\* self.vectors.write() / .read(), self.namespaces.write() / .read() return
Acquire(p) ==
  /\ UNCHANGED <<storeVars, cacheVars, chunkVars, fnVars, ingestVars>>
  /\ procs[p].op # "idle"
  /\ procs[p].held < Len(LocksOf(procs[p].op))
  /\ Available(NextLock(p)[1], NextLock(p)[2])
  /\ locks' = [locks EXCEPT ![NextLock(p)[1]] =
                 IF NextLock(p)[2] = "write" THEN [@ EXCEPT !.writer = p]
                 ELSE [@ EXCEPT !.readers = @ \cup {p}]]
  /\ procs' = [procs EXCEPT ![p].held = @ + 1]

\* the operation returns and its guards are dropped; store_batch goes on
\* to its next vector
Return(p) ==
  /\ UNCHANGED <<storeVars, cacheVars, chunkVars, fnVars, ingestVars>>
  /\ procs[p].op # "idle"
  /\ procs[p].held = Len(LocksOf(procs[p].op))
  /\ locks' = [l \in DOMAIN locks |->
                 [writer |-> IF locks[l].writer = p THEN NoProc ELSE locks[l].writer,
                  readers |-> locks[l].readers \ {p}]]
  /\ procs' = [procs EXCEPT ![p] =
                 IF procs[p].left > 1 THEN [@ EXCEPT !.held = 0, !.left = @ - 1]
                 ELSE Idle]

LockInit ==
  /\ locks = [l \in {"vectors", "namespaces"} |-> [writer |-> NoProc, readers |-> {}]]
  /\ procs = [p \in Procs |-> Idle]

Init == StoreInit /\ CacheInit /\ ChunkInit /\ FnInit /\ IngestInit /\ LockInit

Next ==
  \/ \E ns \in Namespaces, v \in Vectors : Store(ns, v)
  \/ \E ns \in Namespaces, batch \in Batches[Room(MaxBatch)] : StoreBatch(ns, batch)
  \/ \E ns \in Namespaces, q \in Queries, k \in 0..MaxK : Search(ns, q, k)
  \/ \E ns \in Namespaces, id \in Ids : Delete(ns, id)
  \/ \E ns \in Namespaces : DeleteNamespace(ns)
  \/ \E ns \in Namespaces : Count(ns)
  \/ ListNamespaces

CacheNext ==
  \/ \E n \in 0..MaxCap : CacheNew(n)
  \/ \E text \in Texts : CacheGet(text)
  \/ \E text \in Texts, embedding \in CacheEmbeddings : CacheInsert(text, embedding)
  \/ CacheClear
  \/ \E texts \in TextLists : EmbedWithCacheOk(texts)
  \/ \E texts \in TextLists : EmbedWithCacheErr(texts)

ChunkNext ==
  \/ \E cfg \in Configs : ValidateConfig(cfg)
  \/ \E cfg \in Configs : BuilderNew(cfg)
  \/ \E t \in ChunkTexts : ChunkText(t)
  \/ config = TestConfig /\ ChunkText(TestText)
  \/ config = WindowConfig /\ ChunkText(WindowText)
  \/ ChunkLoop

FnNext ==
  \/ \E a, b \in SimVectors : CosineSimilarity(a, b)
  \/ \E a, b \in SimVectors : EuclideanDistance(a, b)
  \/ \E t, id \in Names, i \in ChunkIndexes : GenerateVectorId(t, id, i)

IngestNext ==
  \/ \E valid \in BOOLEAN : SetConfig(valid)
  \/ SetApiKey
  \/ \E u \in UserIds : CreateUser(u)
  \/ \E u \in UserIds, n \in 1..MaxChunks, embed_ok \in BOOLEAN :
       BuildUserRagContext(u, n, embed_ok)
  \/ \E u \in UserIds, embed_ok \in BOOLEAN : SearchUserContext(u, embed_ok)

LockNext ==
  \/ \E p \in Procs, op \in LockOps, ns \in Namespaces, n \in 1..MaxBatch :
       Start(p, op, ns, n)
  \/ \E p \in Procs : Acquire(p)
  \/ \E p \in Procs : Return(p)

Spec == Init /\ [][Next]_vars

CacheSpec == Init /\ [][CacheNext]_vars

ChunkSpec == Init /\ [][ChunkNext]_vars

FnSpec == Init /\ [][FnNext]_vars

IngestSpec == Init /\ [][IngestNext]_vars

LockSpec == Init /\ [][LockNext]_vars

\* A caller whose next lock stays free acquires it, and an operation that
\* holds its locks runs to its return; nothing obliges a caller to start an
\* operation, and nothing is assumed of the order in which a lock is given
\* to the callers waiting for it.
LockFairSpec ==
  /\ LockSpec
  /\ \A p \in Procs : WF_vars(Acquire(p)) /\ WF_vars(Return(p))

(***************************************************************************)
(* Properties of the vector store                                          *)
(***************************************************************************)
IdCount(seq, id) == Cardinality({i \in 1..Len(seq) : seq[i].id = id})

\* C1 (upsert): in every namespace at most one vector has any given id, so
\* storing a vector under an id the namespace already holds replaces the
\* earlier one.  The code pushes every vector: store, lines 82-85.
C1_AtMostOnePerId ==
  \A ns \in DOMAIN vectors : \A id \in Ids : IdCount(vectors[ns], id) <= 1

\* C2 (dimension invariant): all the vectors of one namespace have the same
\* embedding length; a store of another length is refused and changes nothing.
\* The code's store compares no lengths.
C2_OneDimensionPerNamespace ==
  \A ns \in DOMAIN vectors :
    \A i, j \in 1..Len(vectors[ns]) :
      Len(vectors[ns][i].embedding) = Len(vectors[ns][j].embedding)

\* the dimension a batch into last.ns is held to: that of the vectors the
\* namespace held before the call, else that of the batch's first vector
BatchDimension ==
  IF last.n0 > 0 THEN Len(vectors[last.ns][1].embedding)
  ELSE Len(last.arg[1].embedding)

BatchItemFails ==
  \E i \in 1..Len(last.arg) : Len(last.arg[i].embedding) # BatchDimension

\* C3 (store_batch is all-or-nothing): after store_batch the namespace holds
\* all of the batch, or, when an item of the batch fails (its embedding length
\* is not the namespace's dimension), none of it.
C3_BatchAllOrNothing ==
  (last.op = "store_batch" /\ last.arg # <<>>) =>
    IF BatchItemFails
    THEN CountFn(vectors, last.ns) = last.n0
    ELSE CountFn(vectors, last.ns) = last.n0 + Len(last.arg)

\* a goes before b in the order search promises: greater score first, equal
\* scores in insertion order
Precedes(a, b) ==
  \/ ScoreGT(a.score, b.score)
  \/ ScoreEQ(a.score, b.score) /\ a.pos < b.pos

Min(a, b) == IF a < b THEN a ELSE b

\* C4 (search ordering): search returns min(k, n) results, each the stored
\* vector at its position with its cosine similarity to the query, in
\* descending order of score with equal scores in insertion order, and every
\* vector left out comes after every vector returned.
C4_SearchOrdering ==
  (last.op = "search" /\ last.err = "") =>
    LET seq == vectors[last.ns]
        q == last.arg[1]
        k == last.arg[2]
        res == last.ret
        ranked(p) == [score |-> cosine_similarity(q, seq[p].embedding), pos |-> p]
        returned == {res[i].pos : i \in 1..Len(res)}
    IN  /\ Len(res) = Min(k, Len(seq))
        /\ \A i \in 1..Len(res) :
             /\ res[i].pos \in 1..Len(seq)
             /\ res[i].vector_id = seq[res[i].pos].id
             /\ res[i].score = ranked(res[i].pos).score
        /\ \A i, j \in 1..Len(res) : i < j => Precedes(res[i], res[j])
        /\ \A i \in 1..Len(res) :
             \A p \in (1..Len(seq)) \ returned : Precedes(res[i], ranked(p))

\* a search of two vectors for the best one, which was stored second
C4_Witness ==
  /\ last.op = "search"
  /\ last.err = ""
  /\ last.n0 = 2
  /\ last.arg[2] = 1
  /\ Len(last.ret) = 1
  /\ last.ret[1].pos = 2

\* C5 as claimed: search fails as not-found exactly when no store has ever
\* created the namespace.
C5_NotFoundIffNeverCreated ==
  last.op = "search" => (last.err = NotFound <=> lifecycle[last.ns] = "never")

\* C5 as amended: search fails as not-found exactly when the namespace does
\* not exist now (no store has created it, or delete_namespace has removed it
\* since), and returns the empty list when it exists and holds no vector.
C5_NotFoundIffAbsent ==
  last.op = "search" =>
    /\ last.err = NotFound <=> lifecycle[last.ns] # "live"
    /\ last.err = NotFound => last.ret = <<>>
    /\ (lifecycle[last.ns] = "live" /\ last.n0 = 0) =>
         (last.err = "" /\ last.ret = <<>>)

\* a search of a namespace that delete has emptied
C5_Witness ==
  /\ last.op = "search"
  /\ lifecycle[last.ns] = "live"
  /\ last.n0 = 0
  /\ last.err = ""
  /\ last.ret = <<>>

\* the vectors of seq whose id is not id, in their order
RECURSIVE Others(_, _)
Others(seq, id) ==
  IF seq = <<>> THEN <<>>
  ELSE IF Head(seq).id = id THEN Others(Tail(seq), id)
  ELSE <<Head(seq)>> \o Others(Tail(seq), id)

\* C6 (delete): a delete succeeds; it creates no namespace and leaves the
\* list of namespaces and every other namespace alone; it leaves a namespace
\* without the id unchanged; from a namespace with the id it removes the id
\* and keeps the other vectors in their order; a second delete changes nothing.
C6_DeleteStep ==
  last'.op = "delete" =>
    LET ns == last'.ns
        id == last'.arg
    IN  /\ last'.ret = "Ok"
        /\ last'.err = ""
        /\ namespaces' = namespaces
        /\ DOMAIN vectors' = DOMAIN vectors
        /\ \A n \in DOMAIN vectors \ {ns} : vectors'[n] = vectors[n]
        /\ ns \in DOMAIN vectors =>
             /\ IdCount(vectors[ns], id) = 0 => vectors'[ns] = vectors[ns]
             /\ IdCount(vectors'[ns], id) = 0
             /\ vectors'[ns] = Others(vectors[ns], id)
        /\ DeleteFn(vectors', ns, id) = vectors'

C7_DeleteNamespace ==
  last.op = "delete_namespace" =>
    /\ last.ret = "Ok"
    /\ CountFn(vectors, last.ns) = 0
    /\ ~Contains(namespaces, last.ns)
    /\ \A q \in Queries, k \in 0..MaxK :
         SearchFn(vectors, last.ns, q, k).err = NotFound
    /\ RemoveNamespace(vectors, last.ns) = vectors
    /\ UnlistNamespace(namespaces, last.ns) = namespaces

\* a delete_namespace of a namespace that held vectors
C7_Witness ==
  /\ last.op = "delete_namespace"
  /\ last.existed
  /\ last.n0 > 0

\* C8 (namespace lifetime): a store creates its namespace, and a namespace
\* that existed before a call is still listed and searchable after it, unless
\* the call is a delete_namespace of it.
C8_NamespaceLifetime ==
  /\ last.op = "store" =>
       (Contains(namespaces, last.ns) /\ last.ns \in DOMAIN vectors)
  /\ \A ns \in last.live0 :
       ~(last.op = "delete_namespace" /\ last.ns = ns)
       => /\ Contains(namespaces, ns)
          /\ ns \in DOMAIN vectors
          /\ \A q \in Queries : SearchFn(vectors, ns, q, MaxK).err = ""

\* a delete has emptied a namespace, which is still listed
C8_Witness ==
  /\ last.op = "delete"
  /\ last.n0 > 0
  /\ CountFn(vectors, last.ns) = 0
  /\ Contains(namespaces, last.ns)
  /\ last.ns \in DOMAIN vectors

\* C26 (round trip): every result of a search comes from a vector held in
\* that namespace, and its vector_id, text and metadata, the custom metadata
\* included, are those the vector was stored with.  StoredVector has no
\* field for custom and search returns custom: None.
C26_RoundTrip ==
  (last.op = "search" /\ last.err = "") =>
    \A i \in 1..Len(last.ret) :
      \E v \in Vectors :
        /\ Contains(vectors[last.ns], ToStored(v))
        /\ last.ret[i].vector_id = v.id
        /\ last.ret[i].text = v.text
        /\ last.ret[i].metadata = v.metadata

Writes == {"store", "store_batch", "delete", "delete_namespace"}

\* C27 (namespace isolation): store, store_batch, delete and delete_namespace
\* on one namespace leave what every other namespace holds, its count and
\* the results of every search in it as they were.
C27_NamespaceIsolation ==
  last.op \in Writes =>
    \A b \in Namespaces \ {last.ns} :
      /\ b \in DOMAIN vectors <=> b \in DOMAIN last.others0
      /\ b \in DOMAIN vectors => vectors[b] = last.others0[b]
      /\ CountFn(vectors, b) = CountFn(last.others0, b)
      /\ \A q \in Queries, k \in 0..MaxK :
            SearchFn(vectors, b, q, k) = SearchFn(last.others0, b, q, k)

\* a delete of an id in one namespace while another namespace holds a vector
\* of the same id: ids are scoped per namespace
C27_Witness ==
  /\ last.op = "delete"
  /\ last.n0 > CountFn(vectors, last.ns)
  /\ \E b \in DOMAIN vectors \ {last.ns} :
        \E i \in 1..Len(vectors[b]) : vectors[b][i].id = last.arg

NoDuplicates(seq) == \A i, j \in 1..Len(seq) : seq[i] = seq[j] => i = j

C9_EvictsLeastRecentlyUsed ==
  (clast.op = "insert" /\ clast.evicted # None) => clast.evicted = clast.lru

\* C10 (bounded capacity): the cache never holds more than max_size entries,
\* for every max_size >= 0.  With max_size = 0 the code's insert finds no key
\* to evict and inserts.
C10_CacheBounded == Cardinality(DOMAIN cache) <= max_size

(***************************************************************************)
(* Properties of embed_with_cache                                          *)
(***************************************************************************)
EmbedCall == clast.op = "embed_with_cache"
IsHit(i) == clast.key[i] \in DOMAIN clast.cache0
Positions == 1..Len(clast.key)

\* C11 (one embedding per text): a successful embed_with_cache returns a
\* list as long as texts whose position i holds the embedding of texts[i],
\* the cached value when texts[i] was cached at the start of the call and the
\* provider's value otherwise, also when a text occurs more than once.
C11_OneEmbeddingPerText ==
  (EmbedCall /\ ~clast.err) =>
    /\ Len(clast.ret) = Len(clast.key)
    /\ \A i \in Positions :
          clast.ret[i] = IF IsHit(i) THEN clast.cache0[clast.key[i]]
                         ELSE Embed(clast.key[i])

\* a call of three texts, one of them twice, where a miss comes before a hit
\* whose cached value is not what the provider would answer
C11_Witness ==
  /\ EmbedCall /\ ~clast.err
  /\ Len(clast.key) = 3
  /\ \E i, j \in Positions : i # j /\ clast.key[i] = clast.key[j]
  /\ \E i, j \in Positions :
        /\ i < j /\ ~IsHit(i) /\ IsHit(j)
        /\ clast.cache0[clast.key[j]] # Embed(clast.key[j])

\* C12 (provider called at most once): one embed_with_cache invokes the
\* provider's embed at most once, not at all when every text is cached, and
\* the list it passes holds no text that was cached at the start of the call.
C12_ProviderCalledAtMostOnce ==
  EmbedCall =>
    /\ Len(clast.calls) <= 1
    /\ (\A i \in Positions : IsHit(i)) => clast.calls = <<>>
    /\ \A n \in 1..Len(clast.calls) : \A j \in 1..Len(clast.calls[n]) :
          clast.calls[n][j] \notin DOMAIN clast.cache0

\* a call with a hit and a miss: the provider is called once, without the hit
C12_Witness ==
  /\ EmbedCall
  /\ \E i, j \in Positions : IsHit(i) /\ ~IsHit(j)
  /\ Len(clast.calls) = 1
  /\ Len(clast.calls[1]) < Len(clast.key)

\* all texts cached: the provider is not called
C12_WitnessAllHits ==
  EmbedCall /\ clast.key # <<>> /\ (\A i \in Positions : IsHit(i)) /\ clast.calls = <<>>

\* the texts of a list without repetitions, in order of first occurrence
RECURSIVE Dedup(_)
Dedup(seq) ==
  IF seq = <<>> THEN <<>>
  ELSE LET init == SubSeq(seq, 1, Len(seq) - 1)
           x == seq[Len(seq)]
       IN  IF \E j \in 1..Len(init) : init[j] = x THEN Dedup(init)
           ELSE Dedup(init) \o <<x>>

\* C13 (deduplicated miss list): the list handed to the provider is the
\* misses without repetitions, in order of first occurrence.  The code hands
\* over to_embed, which holds a missing text once for each occurrence.
C13_ProviderGetsDeduplicatedMisses ==
  (EmbedCall /\ clast.calls # <<>>) =>
    clast.calls[1] =
      Dedup(SelectSeq(clast.key, LAMBDA t : t \notin DOMAIN clast.cache0))

\* C14 (failure leaves the cache alone): when the provider fails the call
\* returns the error, no list, and the cache holds exactly what it held
\* before the call.
C14_ErrorLeavesCacheUnchanged ==
  (EmbedCall /\ clast.err) => (clast.ret = <<>> /\ cache = clast.cache0)

\* a failed call over a hit and a miss, on a cache that is not empty
C14_Witness ==
  /\ EmbedCall /\ clast.err
  /\ DOMAIN clast.cache0 # {}
  /\ \E i, j \in Positions : IsHit(i) /\ ~IsHit(j)

(***************************************************************************)
(* Properties of the text chunker                                          *)
(***************************************************************************)
\* the precondition the specification gives chunking
ValidConfig(cfg) == 0 < cfg.overlap /\ cfg.overlap < cfg.chunk_size
\* a text of one-byte characters only
OneByteText(t) == \A k \in 1..Len(t) : Width(t[k]) = 1
Returned == pc = "done"
LastChunk == chunks[Len(chunks)]

\* C15 (termination): with 0 < overlap < chunk_size the start offset strictly
\* increases from each chunk to the next, wherever the boundary characters
\* are, so chunk_text reaches the end of the text.  Stated for texts of
\* one-byte characters.  In the code a boundary snap can take actual_end back
\* to within overlap of start, and the next start is then no greater.
C15_StartStrictlyIncreases ==
  (ValidConfig(config) /\ OneByteText(ctext)) =>
    \A i \in 1..(Len(chunks) - 1) : chunks[i].start_idx < chunks[i + 1].start_idx

\* C16 (configuration error): a configuration that does not satisfy
\* 0 < overlap < chunk_size is rejected with a configuration error, no
\* builder chunks with it and no chunk is produced.  ContextBuilder::new
\* checks nothing and validate_config accepts overlap = 0.
C16_InvalidConfigRejected ==
  ~ValidConfig(config) => (pc \in {"new", "invalid_config"} /\ chunks = <<>>)

\* C17 (chunk offsets): with a valid configuration every chunk has
\* 0 <= start_idx < end_idx <= len(text) and holds text[start_idx..end_idx],
\* for every text, the empty one included, and no slice is taken with
\* start > end.  Stated for texts of one-byte characters.  For the empty text
\* the code returns one chunk with start_idx = end_idx = 0.
C17_ChunkOffsets ==
  (ValidConfig(config) /\ OneByteText(ctext)) =>
    /\ pc # "panicked"
    /\ \A i \in 1..Len(chunks) :
          /\ 0 <= chunks[i].start_idx
          /\ chunks[i].start_idx < chunks[i].end_idx
          /\ chunks[i].end_idx <= ByteLen(ctext)
          /\ chunks[i].text = Slice(ctext, chunks[i].start_idx, chunks[i].end_idx)

\* C18 (coverage): with a valid configuration the chunks chunk_text returns
\* are numbered 0, 1, ..., n-1 in order, the first starts at 0, each later one
\* starts at or before the end of the one before, the last ends at len(text),
\* and so every offset of the text lies in some chunk.
C18_Coverage ==
  (Returned /\ ValidConfig(config)) =>
    /\ chunks # <<>>
    /\ \A i \in 1..Len(chunks) : chunks[i].chunk_index = i - 1
    /\ chunks[1].start_idx = 0
    /\ \A i \in 2..Len(chunks) : chunks[i].start_idx <= chunks[i - 1].end_idx
    /\ LastChunk.end_idx = ByteLen(ctext)
    /\ \A b \in 0..(ByteLen(ctext) - 1) :
          \E i \in 1..Len(chunks) : chunks[i].start_idx <= b /\ b < chunks[i].end_idx

\* several chunks, the second overlapping the first, one of them ended early
\* at a boundary character
C18_Witness ==
  /\ Returned /\ ValidConfig(config)
  /\ Len(chunks) >= 2
  /\ chunks[2].start_idx < chunks[1].end_idx
  /\ \E i \in 1..Len(chunks) :
        /\ chunks[i].end_idx < chunks[i].start_idx + config.chunk_size
        /\ chunks[i].end_idx < ByteLen(ctext)

\* C19 (short text): when len(text) <= chunk_size, len being str::len,
\* chunk_text returns exactly one chunk, with start_idx 0, end_idx len(text),
\* chunk_index 0 and the whole text.
C19_SingleChunk ==
  (Returned /\ ByteLen(ctext) <= config.chunk_size) =>
    chunks = <<[text |-> ctext, start_idx |-> 0, end_idx |-> ByteLen(ctext),
                chunk_index |-> 0]>>

\* a text shorter than chunk_size, and not empty, has been chunked
C19_Witness ==
  /\ Returned
  /\ ctext # <<>>
  /\ ByteLen(ctext) < config.chunk_size
  /\ Len(chunks) = 1

C21_NeverSplitsCharacter ==
  ValidConfig(config) =>
    /\ pc # "panicked"
    /\ \A i \in 1..Len(chunks) :
          /\ IsCharBoundary(ctext, chunks[i].start_idx)
          /\ IsCharBoundary(ctext, chunks[i].end_idx)

(***************************************************************************)
(* Properties of the free functions                                        *)
(***************************************************************************)
ZeroMagnitude(a) == \A i \in 1..Len(a) : a[i] = 0

\* C22 (degenerate input): cosine_similarity returns 0.0 when the lengths
\* differ or either vector has zero magnitude, two empty vectors included,
\* and euclidean_distance returns the maximum-distance sentinel when the
\* lengths differ.
C22_DegenerateInput ==
  LET a == fcall.args[1]
      b == fcall.args[2]
  IN  /\ (/\ fcall.op = "cosine_similarity"
          /\ (Len(a) # Len(b) \/ ZeroMagnitude(a) \/ ZeroMagnitude(b)))
         => fcall.ret = ZeroScore
      /\ (fcall.op = "euclidean_distance" /\ Len(a) # Len(b)) => fcall.ret = F32Max

\* cosine_similarity of a zero vector and a vector of the same length
C22_Witness ==
  /\ fcall.op = "cosine_similarity"
  /\ Len(fcall.args[1]) = Len(fcall.args[2])
  /\ fcall.args[1] # <<>>
  /\ ZeroMagnitude(fcall.args[1]) /\ ~ZeroMagnitude(fcall.args[2])

\* cosine_similarity of two empty vectors
C22_WitnessEmpty ==
  fcall.op = "cosine_similarity" /\ fcall.args = <<<<>>, <<>>>> /\ fcall.ret = ZeroScore

\* euclidean_distance of vectors of different lengths
C22_WitnessDistance ==
  /\ fcall.op = "euclidean_distance"
  /\ Len(fcall.args[1]) # Len(fcall.args[2])
  /\ fcall.ret = F32Max

\* C30 (vector ids): generate_vector_id is injective: no other triple of
\* entity type, entity id and chunk index gives the id this triple gives,
\* also when a type or an id holds "::".  The code joins the parts with "::"
\* and escapes nothing.
C30_IdsInjective ==
  fcall.op = "generate_vector_id" =>
    \A t, id \in Names, i \in ChunkIndexes :
      generate_vector_id(t, id, i) = fcall.ret => <<t, id, i>> = fcall.args

(***************************************************************************)
(* Properties of the ingestion pipeline                                    *)
(***************************************************************************)
\* C24 (ingestion): when build_user_rag_context returns success reporting n
\* chunks, the store holds n vectors in the namespace "User:<user_id>", with
\* the ids generate_vector_id("User", user_id, i) for i in 0..n-1.  The code
\* builds the vectors and stores none.
C24_IngestStoresChunks ==
  (icall.op = "build_user_rag_context" /\ icall.err = "") =>
    LET ns == UserNamespace(icall.user)
    IN  /\ ns \in DOMAIN canister.vectors
        /\ Len(canister.vectors[ns]) = icall.n
        /\ \A i \in 1..icall.n :
              canister.vectors[ns][i].id =
                generate_vector_id(<<"U", "s", "e", "r">>, icall.user, i - 1)

(***************************************************************************)
(* Boundary snapping                                                       *)
(***************************************************************************)
\* the byte offsets p in lo..hi-1 at which a boundary character of t begins
BoundariesIn(t, lo, hi) ==
  {p \in lo..(hi - 1) :
     \E k \in 1..Len(t) : Offset(t, k - 1) = p /\ IsBoundaryChar(t[k])}

\* the end the claim gives a chunk whose candidate end is cand
SnappedEnd(t, cand) ==
  LET found == BoundariesIn(t, SaturatingSub(cand, Lookback), cand)
  IN  IF found = {} THEN cand
      ELSE (CHOOSE p \in found : \A q \in found : q <= p) + 1

\* C25 (boundary snapping): with a valid configuration, a chunk whose
\* candidate end start + chunk_size is less than len(text) ends just after
\* the nearest boundary character among the 50 positions before the
\* candidate end, or at the candidate end when there is none, and its end
\* is greater than its start.  On a text with a character of more than one
\* byte find_word_boundary looks at other characters than those at these
\* positions (C21).
C25_BoundarySnapping ==
  ValidConfig(config) =>
    \A i \in 1..Len(chunks) :
      chunks[i].start_idx + config.chunk_size < ByteLen(ctext) =>
        /\ chunks[i].end_idx = SnappedEnd(ctext, chunks[i].start_idx + config.chunk_size)
        /\ chunks[i].end_idx > chunks[i].start_idx

(***************************************************************************)
(* Properties of the store's locks                                         *)
(***************************************************************************)
Busy(p) == procs[p].op # "idle"
Holds(p, l) == locks[l].writer = p \/ p \in locks[l].readers
Waiting(p) ==
  /\ Busy(p)
  /\ procs[p].held < Len(LocksOf(procs[p].op))
  /\ ~Available(NextLock(p)[1], NextLock(p)[2])
\* the callers whose guard keeps waiting caller p from its next lock
Blockers(p) ==
  {q \in Procs \ {p} :
     \/ locks[NextLock(p)[1]].writer = q
     \/ NextLock(p)[2] = "write" /\ q \in locks[NextLock(p)[1]].readers}
\* the locks caller p has still to acquire
ToAcquire(p) ==
  {LocksOf(procs[p].op)[i][1] :
     i \in (procs[p].held + 1)..Len(LocksOf(procs[p].op))}

\* C23: a store, delete or search on one namespace never waits for a store,
\* store_batch, delete or search in progress on another namespace.
C23_NoCrossNamespaceWaiting ==
  \A p \in Procs, q \in Procs :
    ( /\ procs[p].op \in {"store", "delete", "search"}
      /\ procs[q].op \in {"store", "store_batch", "delete", "search"}
      /\ procs[p].ns # procs[q].ns
      /\ Waiting(p) )
    => q \notin Blockers(p)

\* no caller holds the namespaces lock while it has the vectors lock to acquire
LockOrder ==
  \A p \in Procs : ~(Holds(p, "namespaces") /\ "vectors" \in ToAcquire(p))
\* while an operation is in progress, some operation in progress can take
\* its next step
NoDeadlock ==
  (\E p \in Procs : Busy(p)) => \E p \in Procs : Busy(p) /\ ~Waiting(p)

\* no idle caller starts an operation in this step
NoArrival == \A p \in Procs : Busy(p)' => Busy(p)

====
